---- MODULE Spec2Model ----
(***************************************************************************)
(* A model of src/user/bert_nmt.py: the Bert-compatible target dictionary, *)
(* the Bert-based source dictionary, the translation encoder's masks, the  *)
(* translation task's dictionary checks and the architecture presets.      *)
(*                                                                         *)
(* Python indices are 0-based and TLA+ sequences 1-based: the symbol with  *)
(* Python index i is symbols[i + 1].                                       *)
(***************************************************************************)
EXTENDS Integers, Sequences, FiniteSets, TLC

VARIABLES
    \* ---- BertTranslationTask.build_dictionary ----
    d,              \* the BertCompatibleDictionary being built
    dpc,            \* "constructed" | "adding" | "finalized" | "raised"
    ret,            \* the last add_symbol call: [word, n, idx]
    adds,           \* number of add_symbol calls made on d since construction
    fin,            \* the arguments finalize was called with
    \* ---- BertTranslationTask.setup_task, load_pretrained_model ----
    env,            \* the arguments, files and checkpoint both work on
    setup,          \* what setup_task returned or raised
    loaded,         \* what load_pretrained_model returned or raised
    \* ---- BertTranslationEncoder.forward ----
    src_tokens,     \* the batch of source token ids
    enc_pad,        \* self.dictionary.pad()
    encoder_out,    \* what forward handed to the pretrained model and returned
    \* ---- the architecture presets ----
    args,           \* the namespace, mutated in place
    given,          \* the namespace as the caller passed it
    arch,           \* the preset applied and whether it raised
    \* ---- BertBasedDictionary ----
    name,           \* args.bert_name
    bert_dict,      \* the BertBasedDictionary of that name
    line,           \* the tokens of the line given to encode_line
    reverse_order,  \* encode_line's argument
    ids,            \* the tensor encode_line returned
    printed,        \* whether encode_line printed the line
    text,           \* what string returned for ids
    tpc             \* "start" | "created" | "encoded" | "decoded"

dictVars == <<d, dpc, ret, adds, fin>>

taskVars == <<env, setup, loaded>>

encVars == <<src_tokens, enc_pad, encoder_out>>

archVars == <<args, given, arch>>

tokVars == <<name, bert_dict, line, reverse_order, ids, printed, text, tpc>>

notDict == <<taskVars, encVars, archVars, tokVars>>
notTask == <<dictVars, encVars, archVars, tokVars>>
notEnc == <<dictVars, taskVars, archVars, tokVars>>
notArch == <<dictVars, taskVars, encVars, tokVars>>
notTok == <<dictVars, taskVars, encVars, archVars>>

vars == <<d, dpc, ret, adds, fin, env, setup, loaded, src_tokens, enc_pad, encoder_out,
          args, given, arch, name, bert_dict, line, reverse_order, ids, printed, text, tpc>>

(***************************************************************************)
(* fairseq.data.Dictionary, the parent class: the methods that             *)
(* BertCompatibleDictionary inherits and bert_nmt.py calls.                *)
(***************************************************************************)

\* Dictionary.add_symbol(word, n): a known word only gains count; a new word
\* is appended and gets index len(symbols).  Returns the dictionary and idx.
add_symbol(dict, word, n) ==
    IF word \in DOMAIN dict.indices
    THEN LET idx == dict.indices[word]
         IN  [dict |-> [dict EXCEPT !.count[idx + 1] = @ + n], idx |-> idx]
    ELSE LET idx == Len(dict.symbols)
         IN  [dict |-> [dict EXCEPT !.indices = @ @@ (word :> idx),
                                    !.symbols = Append(@, word),
                                    !.count = Append(@, n)],
              idx |-> idx]

\* '[unused%d]' % i
Unused(i) == "[unused" \o ToString(i) \o "]"

\* for i in range(start, stop): self.add_symbol('[unused%d]' % i)
\* The calls are made in increasing i.  The range is halved, and the first
\* half's table is computed before the second half starts (the Len test is
\* always true), only to keep the evaluation shallow.
RECURSIVE AddUnused(_, _, _)
AddUnused(dict, start, stop) ==
    IF start >= stop THEN dict
    ELSE IF stop - start = 1 THEN add_symbol(dict, Unused(start), 1).dict
    ELSE LET mid == (start + stop) \div 2
             first == AddUnused(dict, start, mid)
         IN  IF Len(first.symbols) >= 0 THEN AddUnused(first, mid, stop) ELSE first

\* The attributes every constructor sets before its first add_symbol.
NewTable(pad, eos, unk) ==
    [unk_word |-> unk, pad_word |-> pad, eos_word |-> eos,
     symbols |-> <<>>, count |-> <<>>, indices |-> <<>>]

\* fairseq's generic Dictionary.__init__, reached through Dictionary.load at
\* load_pretrained_model: a placeholder first, then pad, eos, unk.
Dictionary(pad, eos, unk) ==
    LET r0 == add_symbol(NewTable(pad, eos, unk), "<Lua heritage>", 1)
        r1 == add_symbol(r0.dict, pad, 1)
        r2 == add_symbol(r1.dict, eos, 1)
        r3 == add_symbol(r2.dict, unk, 1)
    IN  r3.dict @@ [pad_index |-> r1.idx, eos_index |-> r2.idx,
                    unk_index |-> r3.idx, nspecial |-> Len(r3.dict.symbols)]

\* for i in range(1, 100)
UnusedRange == [start |-> 1, stop |-> 100]

\* The constructor with its loop one short: range(1, 99).
ShortBertCompatibleDictionary(pad, eos, unk) ==
    LET r1 == add_symbol(NewTable(pad, eos, unk), pad, 1)
        d2 == AddUnused(r1.dict, UnusedRange.start, UnusedRange.stop - 1)
        r3 == add_symbol(d2, unk, 1)
        r4 == add_symbol(r3.dict, "<bos>", 1)
        r5 == add_symbol(r4.dict, eos, 1)
    IN  r5.dict @@ [pad_index |-> r1.idx, unk_index |-> r3.idx,
                    eos_index |-> r5.idx, nspecial |-> Len(r5.dict.symbols)]

\* BertCompatibleDictionary.__init__: pad first, then '[unused1]'..'[unused99]',
\* then unk, '<bos>' and eos; nspecial is the number of symbols so far.
BertCompatibleDictionary(pad, eos, unk) ==
    LET r1 == add_symbol(NewTable(pad, eos, unk), pad, 1)
        d2 == AddUnused(r1.dict, UnusedRange.start, UnusedRange.stop)
        r3 == add_symbol(d2, unk, 1)
        r4 == add_symbol(r3.dict, "<bos>", 1)
        r5 == add_symbol(r4.dict, eos, 1)
    IN  r5.dict @@ [pad_index |-> r1.idx, unk_index |-> r3.idx,
                    eos_index |-> r5.idx, nspecial |-> Len(r5.dict.symbols)]

\* The default arguments of both constructors: pad='<pad>', eos='</s>', unk='<unk>'.
DefaultWords == [pad |-> "<pad>", eos |-> "</s>", unk |-> "<unk>"]

\* Dictionary.pad(), .unk(), .eos() return the indices cached at construction.
dict_pad(dict) == dict.pad_index
dict_unk(dict) == dict.unk_index
dict_eos(dict) == dict.eos_index

\* ind[w] = i on a Python dict: a new key is added, a known key overwritten.
Put(ind, w, i) == (w :> i) @@ ind

\* Dictionary.load's loop over the file's '<word> <count>' lines: every line is
\* appended as a new symbol, whatever the table already holds.
RECURSIVE load_lines(_, _)
load_lines(dict, lines) ==
    IF lines = <<>> THEN dict
    ELSE load_lines([dict EXCEPT !.indices = Put(@, Head(lines)[1], Len(dict.symbols)),
                                 !.symbols = Append(@, Head(lines)[1]),
                                 !.count = Append(@, Head(lines)[2])],
                    Tail(lines))

\* a % b as Python computes it (the result has the sign of b), b # 0.
PyMod(a, b) == IF b > 0 THEN a % b ELSE -((-a) % (-b))

\* s without its i-th element.
RemoveAt(s, i) == SubSeq(s, 1, i - 1) \o SubSeq(s, i + 1, Len(s))

\* Counter.most_common(k) over <<symbol, count>> pairs in insertion order:
\* the k largest counts first, equal counts in insertion order; none for k <= 0.
RECURSIVE most_common(_, _)
most_common(pairs, k) ==
    IF k <= 0 \/ pairs = <<>> THEN <<>>
    ELSE LET best == CHOOSE i \in 1..Len(pairs) :
                         \A j \in 1..Len(pairs) :
                             \/ pairs[j][2] < pairs[i][2]
                             \/ pairs[j][2] = pairs[i][2] /\ j >= i
         IN  <<pairs[best]>> \o most_common(RemoveAt(pairs, best), k - 1)

\* finalize's first loop: symbols are kept while count >= threshold, and the
\* loop breaks at the first symbol below it.
RECURSIVE KeepCommon(_, _, _)
KeepCommon(tab, common, threshold) ==
    IF common = <<>> \/ Head(common)[2] < threshold THEN tab
    ELSE KeepCommon([symbols |-> Append(tab.symbols, Head(common)[1]),
                     count |-> Append(tab.count, Head(common)[2]),
                     indices |-> Put(tab.indices, Head(common)[1], Len(tab.symbols))],
                    Tail(common), threshold)

\* '{:04d}'.format(i)
Format04d(i) ==
    IF i < 10 THEN "000" \o ToString(i)
    ELSE IF i < 100 THEN "00" \o ToString(i)
    ELSE IF i < 1000 THEN "0" \o ToString(i)
    ELSE ToString(i)

\* finalize's second loop: 'madeupword{:04d}' symbols with count 0 until the
\* size is a multiple of padding_factor (entered only for padding_factor > 1).
RECURSIVE PadTable(_, _, _)
PadTable(tab, i, padding_factor) ==
    IF Len(tab.symbols) % padding_factor = 0 THEN tab
    ELSE PadTable([symbols |-> Append(tab.symbols, "madeupword" \o Format04d(i)),
                   count |-> Append(tab.count, 0),
                   indices |-> Put(tab.indices, "madeupword" \o Format04d(i),
                                   Len(tab.symbols))],
                  i + 1, padding_factor)

\* dict(zip(symbols[:nspecial], range(nspecial))): each symbol with its index,
\* a repeated symbol with its last one.
ZipIndices(syms) ==
    [w \in {syms[i] : i \in 1..Len(syms)} |->
        LET at == {i \in 1..Len(syms) : syms[i] = w}
        IN  (CHOOSE i \in at : \A j \in at : j <= i) - 1]

\* Dictionary.finalize(threshold, nwords, padding_factor): the first nspecial
\* symbols are kept as they are, the others are sorted by count, cut at nwords
\* and threshold, and the table is padded.  The two closing assertions raise
\* before anything is assigned to self.
finalize(dict, threshold, nwords, padding_factor) ==
    LET nw == IF nwords <= 0 THEN Len(dict.symbols) ELSE nwords
        kept == [symbols |-> SubSeq(dict.symbols, 1, dict.nspecial),
                 count |-> SubSeq(dict.count, 1, dict.nspecial),
                 indices |-> ZipIndices(SubSeq(dict.symbols, 1, dict.nspecial))]
        learned == [i \in 1..(Len(dict.symbols) - dict.nspecial) |->
                       <<dict.symbols[dict.nspecial + i], dict.count[dict.nspecial + i]>>]
        cut == KeepCommon(kept, most_common(learned, nw - dict.nspecial), threshold)
        new == IF padding_factor > 1 THEN PadTable(cut, 0, padding_factor) ELSE cut
    IN  IF padding_factor = 0
        THEN [dict |-> dict, raised |-> "ZeroDivisionError"]
        ELSE IF PyMod(Len(new.symbols), padding_factor) # 0
                \/ Len(new.symbols) # Cardinality(DOMAIN new.indices)
        THEN [dict |-> dict, raised |-> "AssertionError"]
        ELSE [dict |-> [dict EXCEPT !.count = new.count, !.symbols = new.symbols,
                                    !.indices = new.indices],
              raised |-> "no"]

(***************************************************************************)
(* BertTranslationTask.build_dictionary: a fresh BertCompatibleDictionary, *)
(* the corpus merged into it by add_symbol(word, count) calls, finalize.   *)
(***************************************************************************)

\* Bound of the corpus: the number of add_symbol calls.
MaxAdds == 2

\* The counts a word is merged with.
Counts == {1, 2}

\* Words a corpus line can hold: plain words, a word finalize pads with, and
\* the reserved words themselves.
LearnedWords == {"a", "b", "madeupword0000"}
ReservedWords == {"</s>"}
CorpusWords == LearnedWords \cup ReservedWords

Thresholds == {-1, 2}
NWords == {-1, 50, 104}
PaddingFactors == {-2, 0, 1, 3, 8}

NoCall == [word |-> "", n |-> 0, idx |-> -1]
NoFinalize == [threshold |-> 0, nwords |-> 0, padding_factor |-> 0]

\* build_dictionary's first statement with the table of the generic Dictionary.
GenericNewDictionary ==
    Dictionary(DefaultWords.pad, DefaultWords.eos, DefaultWords.unk)

\* build_dictionary's first statement: d = BertCompatibleDictionary()
NewDictionary ==
    BertCompatibleDictionary(DefaultWords.pad, DefaultWords.eos, DefaultWords.unk)

InitDict ==
    /\ d = NewDictionary
    /\ dpc = "constructed"
    /\ ret = NoCall
    /\ adds = 0
    /\ fin = NoFinalize

\* One dict.add_symbol(w, c) of add_file_to_dictionary's merge.
AddSymbol(word, n) ==
    /\ dpc \in {"constructed", "adding"}
    /\ adds < MaxAdds
    /\ LET r == add_symbol(d, word, n)
       IN  /\ d' = r.dict
           /\ ret' = [word |-> word, n |-> n, idx |-> r.idx]
    /\ adds' = adds + 1
    /\ dpc' = "adding"
    /\ fin' = fin
    /\ UNCHANGED notDict

\* d.finalize(threshold=threshold, nwords=nwords, padding_factor=padding_factor)
Finalize(threshold, nwords, padding_factor) ==
    /\ dpc \in {"constructed", "adding"}
    /\ LET r == finalize(d, threshold, nwords, padding_factor)
       IN  /\ d' = r.dict
           /\ dpc' = IF r.raised = "no" THEN "finalized" ELSE "raised"
    /\ fin' = [threshold |-> threshold, nwords |-> nwords,
               padding_factor |-> padding_factor]
    /\ UNCHANGED <<ret, adds>>
    /\ UNCHANGED notDict

NextDict ==
    \/ \E word \in CorpusWords, n \in Counts : AddSymbol(word, n)
    \/ \E threshold \in Thresholds, nwords \in NWords, padding_factor \in PaddingFactors :
           Finalize(threshold, nwords, padding_factor)

(***************************************************************************)
(* BertBasedDictionary: the source dictionary, a facade over the           *)
(* pretrained tokenizer.  A str that the code searches is a sequence of    *)
(* its characters; a str that it only stores or compares is a string.      *)
(***************************************************************************)

\* 'bert-base-cased'
BertBaseCased ==
    <<"b", "e", "r", "t", "-", "b", "a", "s", "e", "-", "c", "a", "s",
      "e", "d">>

\* 'bert-base-uncased'
BertBaseUncased ==
    <<"b", "e", "r", "t", "-", "b", "a", "s", "e", "-", "u", "n", "c",
      "a", "s", "e", "d">>

\* 'bert-large-cased'
BertLargeCased ==
    <<"b", "e", "r", "t", "-", "l", "a", "r", "g", "e", "-", "c", "a",
      "s", "e", "d">>

\* 'bert-large-uncased'
BertLargeUncased ==
    <<"b", "e", "r", "t", "-", "l", "a", "r", "g", "e", "-", "u", "n",
      "c", "a", "s", "e", "d">>

\* 'bert-base-multilingual-uncased'
BertBaseMultilingualUncased ==
    <<"b", "e", "r", "t", "-", "b", "a", "s", "e", "-", "m", "u", "l",
      "t", "i", "l", "i", "n", "g", "u", "a", "l", "-", "u", "n", "c",
      "a", "s", "e", "d">>

\* 'bert-base-multilingual-cased'
BertBaseMultilingualCased ==
    <<"b", "e", "r", "t", "-", "b", "a", "s", "e", "-", "m", "u", "l",
      "t", "i", "l", "i", "n", "g", "u", "a", "l", "-", "c", "a", "s",
      "e", "d">>

\* 'bert-base-chinese'
BertBaseChinese ==
    <<"b", "e", "r", "t", "-", "b", "a", "s", "e", "-", "c", "h", "i",
      "n", "e", "s", "e">>

\* The choices of --bert-name.
BertNames ==
    {BertBaseCased, BertBaseUncased, BertLargeCased, BertLargeUncased,
     BertBaseMultilingualUncased, BertBaseMultilingualCased,
     BertBaseChinese}

Uncased == <<"u", "n", "c", "a", "s", "e", "d">>
Cased == <<"c", "a", "s", "e", "d">>
Base == <<"b", "a", "s", "e">>

\* str.find(sub): the lowest 0-based index at which sub occurs in s, else -1.
find(s, sub) ==
    LET hits == {i \in 0..(Len(s) - Len(sub)) : SubSeq(s, i + 1, i + Len(sub)) = sub}
    IN  IF hits = {} THEN -1 ELSE CHOOSE i \in hits : \A j \in hits : i <= j

\* The tokens __create_tokenizer registers as never split: the four structural
\* tokens, '##' + each unit suffix, '##' + each digit.
NeverSplit ==
    <<"[PAD]", "[UNK]", "[CLS]", "[SEP]">>
    \o [i \in 1..12 |-> "##" \o <<"st", "nd", "rd", "th", "mm", "m",
                                  "ns", "ms", "s", "min", "hr", "h">>[i]]
    \o [i \in 1..10 |-> "##" \o ToString(i - 1)]

\* lower = name.find('cased') >= 0: every supported name but the Chinese one.
LowerIfCased(nm) == find(nm, Cased) >= 0

\* lower = (name == 'bert-base-chinese' or name.find('uncased') >= 0)
Lower(nm) == nm = BertBaseChinese \/ find(nm, Uncased) >= 0

\* The pretrained vocabulary file of a name, as far as the code reads it: the
\* four structural tokens at the ids pad, unk, cls, sep and some subwords.
Vocab(pad, unk, cls, sep) ==
    ("[PAD]" :> pad) @@ ("[UNK]" :> unk) @@ ("[CLS]" :> cls) @@ ("[SEP]" :> sep)
    @@ ("[MASK]" :> 103) @@ ("##st" :> 3367) @@ ("hello" :> 7592) @@ ("world" :> 2088)

\* The layout of the published vocabularies of all seven names.
BertVocab == Vocab(0, 100, 101, 102)

\* BertTokenizer.from_pretrained(name, never_split=never_split, do_lower_case=lower):
\* vocab is the loaded file and ids_to_tokens its inverse.
create_tokenizer(nm, vocab) ==
    [vocab |-> vocab,
     ids_to_tokens |-> [id \in {vocab[t] : t \in DOMAIN vocab} |->
                           CHOOSE t \in DOMAIN vocab : vocab[t] = id],
     never_split |-> NeverSplit,
     do_lower_case |-> Lower(nm)]

\* BertTokenizer.convert_tokens_to_ids and convert_ids_to_tokens: table lookups.
convert_tokens_to_ids(tok, tokens) == [i \in 1..Len(tokens) |-> tok.vocab[tokens[i]]]
convert_ids_to_tokens(tok, idseq) == [i \in 1..Len(idseq) |-> tok.ids_to_tokens[idseq[i]]]

\* BertBasedDictionary.__init__: the tokenizer, and the ids of '[PAD]', '[UNK]',
\* '[CLS]', '[SEP]' read from it once and cached.
BertBasedDictionary(nm, vocab) ==
    LET tok == create_tokenizer(nm, vocab)
        special == convert_tokens_to_ids(tok, <<"[PAD]", "[UNK]", "[CLS]", "[SEP]">>)
    IN  [tokenizer |-> tok, pad |-> special[1], unk |-> special[2],
         bos |-> special[3], eos |-> special[4], unk_word |-> "<unk>"]

(***************************************************************************)
(* BertTranslationTask: setup_task and load_pretrained_model.              *)
(***************************************************************************)

\* BertTranslationTask.load_dictionary: BertCompatibleDictionary.load(filename),
\* that is cls() with the default words and then the file's lines.
load_dictionary(lines) ==
    load_lines(BertCompatibleDictionary(DefaultWords.pad, DefaultWords.eos,
                                        DefaultWords.unk), lines)

\* Dictionary.load(tgt_dict_path) of load_pretrained_model: the generic class.
Dictionary_load(lines) ==
    load_lines(Dictionary(DefaultWords.pad, DefaultWords.eos, DefaultWords.unk), lines)

\* The first failing assertion of the pad, eos, unk checks, in the code's order.
FailedCheck(src_dict, tgt_dict) ==
    IF src_dict.pad # dict_pad(tgt_dict) THEN "pad"
    ELSE IF src_dict.eos # dict_eos(tgt_dict) THEN "eos"
    ELSE IF src_dict.unk # dict_unk(tgt_dict) THEN "unk"
    ELSE "none"

\* What the two entry points work on: the parsed arguments (or the checkpoint's),
\* the vocabulary the name resolves to, the target dictionary file, what
\* infer_language_pair finds in the data directory, and whether the checkpoint's
\* parameter names are those of the model built.
TargetFiles ==
    {<<>>, <<<<"a", 5>>>>, <<<<"a", 5>>, <<"<pad>", 1>>>>}

Environments ==
    [bert_name : {BertBaseCased, BertBaseUncased},
     vocab : {Vocab(p, u, 101, s) : p \in {0, 1}, u \in {100, 3}, s \in {102, 2}},
     tgt_file : TargetFiles,
     source_lang : {"de", "None"},
     target_lang : {"en", "None"},
     inferred : {<<"de", "en">>, <<"None", "None">>},
     state_dict_matches : BOOLEAN]

NotRun == [result |-> "not run"]

\* setup_task with load_dictionary replaced by the generic Dictionary.load.
setup_task_generic(e) ==
    LET pair == IF e.source_lang = "None" \/ e.target_lang = "None"
                THEN e.inferred ELSE <<e.source_lang, e.target_lang>>
        src_dict == BertBasedDictionary(e.bert_name, e.vocab)
        tgt_dict == Dictionary_load(e.tgt_file)
        failed == FailedCheck(src_dict, tgt_dict)
    IN  IF pair[1] = "None" \/ pair[2] = "None"
        THEN [result |-> "Exception"]
        ELSE IF failed # "none"
        THEN [result |-> "AssertionError", failed |-> failed,
              src_dict |-> src_dict, tgt_dict |-> tgt_dict]
        ELSE [result |-> "task", source_lang |-> pair[1], target_lang |-> pair[2],
              src_dict |-> src_dict, tgt_dict |-> tgt_dict]

\* BertTranslationTask.setup_task: the language pair (given or inferred),
\* the two dictionaries, the three assertions, the task.
setup_task(e) ==
    LET pair == IF e.source_lang = "None" \/ e.target_lang = "None"
                THEN e.inferred ELSE <<e.source_lang, e.target_lang>>
        src_dict == BertBasedDictionary(e.bert_name, e.vocab)
        tgt_dict == load_dictionary(e.tgt_file)
        failed == FailedCheck(src_dict, tgt_dict)
    IN  IF pair[1] = "None" \/ pair[2] = "None"
        THEN [result |-> "Exception"]
        ELSE IF failed # "none"
        THEN [result |-> "AssertionError", failed |-> failed,
              src_dict |-> src_dict, tgt_dict |-> tgt_dict]
        ELSE [result |-> "task", source_lang |-> pair[1], target_lang |-> pair[2],
              src_dict |-> src_dict, tgt_dict |-> tgt_dict]

\* BertTranslationTask.load_pretrained_model: the dictionaries, the three
\* assertions, then the task, the model and the strict load of the weights.
load_pretrained_model(e) ==
    LET src_dict == BertBasedDictionary(e.bert_name, e.vocab)
        tgt_dict == Dictionary_load(e.tgt_file)
        failed == FailedCheck(src_dict, tgt_dict)
    IN  IF failed # "none"
        THEN [result |-> "AssertionError", failed |-> failed, weights_loaded |-> FALSE,
              src_dict |-> src_dict, tgt_dict |-> tgt_dict]
        ELSE IF ~e.state_dict_matches
        THEN [result |-> "RuntimeError", failed |-> failed, weights_loaded |-> FALSE,
              src_dict |-> src_dict, tgt_dict |-> tgt_dict]
        ELSE [result |-> "model", failed |-> failed, weights_loaded |-> TRUE,
              src_dict |-> src_dict, tgt_dict |-> tgt_dict]

InitTask ==
    /\ env \in Environments
    /\ setup = NotRun
    /\ loaded = NotRun

SetupTask ==
    /\ setup = NotRun
    /\ setup' = setup_task(env)
    /\ UNCHANGED <<env, loaded>>
    /\ UNCHANGED notTask

LoadPretrainedModel ==
    /\ loaded = NotRun
    /\ loaded' = load_pretrained_model(env)
    /\ UNCHANGED <<env, setup>>
    /\ UNCHANGED notTask

NextTask == SetupTask \/ LoadPretrainedModel

(***************************************************************************)
(* BertTranslationEncoder.forward: the padding mask and the attention mask. *)
(* A 2-D tensor is a sequence of rows; a mask holds 0 and 1 (the uint8 that *)
(* eq returns).                                                             *)
(***************************************************************************)

\* Bounds of a batch: its number of rows and their length.
MaxBatch == 2
MaxLen == 2

\* The token ids a batch holds, and what self.dictionary.pad() can be.
TokenIds == {0, 1, 5}
PadIds == {0, 1}

Batches ==
    UNION {[1..b -> [1..t -> TokenIds]] : b \in 1..MaxBatch, t \in 1..MaxLen}

\* None, and a tensor where None is possible.
NoneValue == [is_none |-> TRUE]
Tensor(v) == [is_none |-> FALSE, value |-> v]

\* Tensor.eq(v), element-wise.
eq(t, v) == [b \in DOMAIN t |-> [i \in DOMAIN t[b] |-> IF t[b][i] = v THEN 1 ELSE 0]]

\* x ^ 1 on an unsigned byte: the lowest bit flipped.
Xor1(x) == IF x % 2 = 0 THEN x + 1 ELSE x - 1

\* paddings ^ 1, element-wise.
xor1(t) == [b \in DOMAIN t |-> [i \in DOMAIN t[b] |-> Xor1(t[b][i])]]

\* Tensor.any()
any(t) == \E b \in DOMAIN t : \E i \in DOMAIN t[b] : t[b][i] # 0

\* torch.zeros_like(t)
zeros_like(t) == [b \in DOMAIN t |-> [i \in DOMAIN t[b] |-> 0]]

\* forward without the test for a batch that has no padding.
forward_always_mask(tokens, pad) ==
    LET paddings == eq(tokens, pad)
        masks == xor1(paddings)
    IN  [input_ids |-> tokens,
         token_type_ids |-> zeros_like(tokens),
         attention_mask |-> masks,
         encoder_padding_mask |-> Tensor(paddings)]

\* BertTranslationEncoder.forward: what is handed to self.bert (input_ids,
\* token_type_ids, attention_mask) and the mask returned beside encoder_out.
forward(tokens, pad) ==
    LET paddings == eq(tokens, pad)
        masks == xor1(paddings)
    IN  [input_ids |-> tokens,
         token_type_ids |-> zeros_like(tokens),
         attention_mask |-> masks,
         encoder_padding_mask |-> IF ~any(paddings) THEN NoneValue ELSE Tensor(paddings)]

InitEnc ==
    /\ src_tokens \in Batches
    /\ enc_pad \in PadIds
    /\ encoder_out = NotRun

Forward ==
    /\ encoder_out = NotRun
    /\ encoder_out' = forward(src_tokens, enc_pad)
    /\ UNCHANGED <<src_tokens, enc_pad>>
    /\ UNCHANGED notEnc

NextEnc == Forward

(***************************************************************************)
(* The architecture presets.  args is the argparse.Namespace: an attribute  *)
(* that is not set holds Unset; the values are written as Python prints     *)
(* them.  bert_name is None or a str.                                       *)
(***************************************************************************)

Unset == "<unset>"

\* The hyperparameter attributes the presets assign.
Fields ==
    {"bert_layer", "decoder_embed_path", "decoder_embed_dim", "decoder_ffn_embed_dim",
     "decoder_layers", "decoder_attention_heads", "decoder_normalize_before",
     "decoder_learned_pos", "attention_dropout", "relu_dropout", "dropout",
     "adaptive_softmax_cutoff", "adaptive_softmax_dropout",
     "share_decoder_input_output_embed", "share_all_embeddings",
     "no_token_positional_embeddings", "adaptive_input", "decoder_output_dim",
     "decoder_input_dim"}

\* getattr(args, f, default)
getattr(a, f, default) == IF a[f] = Unset THEN default ELSE a[f]

\* args.f = getattr(args, f, default)
Fill(a, f, default) == [a EXCEPT ![f] = getattr(a, f, default)]

\* A run of such statements, in order.
RECURSIVE FillAll(_, _)
FillAll(a, pairs) ==
    IF pairs = <<>> THEN a
    ELSE FillAll(Fill(a, Head(pairs)[1], Head(pairs)[2]), Tail(pairs))

\* bert_nmt_base: bert_layer and decoder_embed_path are filled; args.bert_name.find
\* raises AttributeError when bert_name is None; decoder_embed_dim is assigned from
\* the name; the other defaults are filled.
bert_nmt_base(a) ==
    LET a1 == FillAll(a, << <<"bert_layer", "-2">>, <<"decoder_embed_path", "None">> >>)
    IN  IF a1.bert_name.is_none
        THEN [args |-> a1, raised |-> "AttributeError"]
        ELSE LET a2 == [a1 EXCEPT !.decoder_embed_dim =
                           IF find(a1.bert_name.chars, Base) >= 0 THEN "768" ELSE "1024"]
                 a3 == FillAll(a2, <<
                           <<"decoder_ffn_embed_dim", "2048">>,
                           <<"decoder_layers", "6">>,
                           <<"decoder_attention_heads", "8">>,
                           <<"decoder_normalize_before", "False">>,
                           <<"decoder_learned_pos", "False">>,
                           <<"attention_dropout", "0.0">>,
                           <<"relu_dropout", "0.0">>,
                           <<"dropout", "0.1">>,
                           <<"adaptive_softmax_cutoff", "None">>,
                           <<"adaptive_softmax_dropout", "0">>,
                           <<"share_decoder_input_output_embed", "False">>,
                           <<"share_all_embeddings", "False">>,
                           <<"no_token_positional_embeddings", "False">>,
                           <<"adaptive_input", "False">> >>)
                 a4 == Fill(a3, "decoder_output_dim", a3.decoder_embed_dim)
                 a5 == Fill(a4, "decoder_input_dim", a4.decoder_embed_dim)
             IN  [args |-> a5, raised |-> "no"]

\* bert_nmt_big with the base preset applied before its own defaults.
bert_nmt_big_base_first(a) ==
    LET r == bert_nmt_base(a)
    IN  IF r.raised # "no" THEN r
        ELSE [args |-> FillAll(r.args, << <<"decoder_ffn_embed_dim", "4096">>,
                                          <<"decoder_attention_heads", "16">>,
                                          <<"dropout", "0.3">> >>),
              raised |-> "no"]

\* bert_nmt_big: three defaults of its own, then bert_nmt_base.
bert_nmt_big(a) ==
    bert_nmt_base(FillAll(a, << <<"decoder_ffn_embed_dim", "4096">>,
                                <<"decoder_attention_heads", "16">>,
                                <<"dropout", "0.3">> >>))

\* bert_nmt_big_t2t assigning decoder_normalize_before whatever args holds.
bert_nmt_big_t2t_assign(a) ==
    bert_nmt_big(FillAll([a EXCEPT !.decoder_normalize_before = "True"],
                         << <<"attention_dropout", "0.1">>,
                            <<"relu_dropout", "0.1">> >>))

\* bert_nmt_big_t2t: three defaults of its own, then bert_nmt_big.
bert_nmt_big_t2t(a) ==
    bert_nmt_big(FillAll(a, << <<"decoder_normalize_before", "True">>,
                               <<"attention_dropout", "0.1">>,
                               <<"relu_dropout", "0.1">> >>))

\* Bound: how many hyperparameters the caller has set before the preset runs.
MaxPreset == 2

RECURSIVE FieldSets(_)
FieldSets(k) ==
    IF k = 0 THEN {{}}
    ELSE LET S == FieldSets(k - 1) IN S \cup {fs \cup {f} : fs \in S, f \in Fields}

\* The str or None that args.bert_name holds.
Str(chars) == [is_none |-> FALSE, chars |-> chars]
BertNameValues == {NoneValue} \cup {Str(n) : n \in BertNames}

\* The namespace in which the hyperparameters of fs hold a value of the caller.
Namespace(bn, fs) ==
    [f \in Fields \cup {"bert_name"} |->
        IF f = "bert_name" THEN bn ELSE IF f \in fs THEN "user" ELSE Unset]

NoPreset == [preset |-> "none", raised |-> "no"]

InitArch ==
    /\ \E bn \in BertNameValues, fs \in FieldSets(MaxPreset) : args = Namespace(bn, fs)
    /\ given = args
    /\ arch = NoPreset

ApplyBase ==
    /\ arch = NoPreset
    /\ LET r == bert_nmt_base(args)
       IN  args' = r.args /\ arch' = [preset |-> "bert_nmt", raised |-> r.raised]
    /\ UNCHANGED given
    /\ UNCHANGED notArch

ApplyBig ==
    /\ arch = NoPreset
    /\ LET r == bert_nmt_big(args)
       IN  args' = r.args /\ arch' = [preset |-> "bert_nmt_big", raised |-> r.raised]
    /\ UNCHANGED given
    /\ UNCHANGED notArch

ApplyBigT2t ==
    /\ arch = NoPreset
    /\ LET r == bert_nmt_big_t2t(args)
       IN  args' = r.args /\ arch' = [preset |-> "bert_nmt_big_t2t", raised |-> r.raised]
    /\ UNCHANGED given
    /\ UNCHANGED notArch

NextArch == ApplyBase \/ ApplyBig \/ ApplyBigT2t

(***************************************************************************)
(* BertBasedDictionary.encode_line and string.  A line is given by the      *)
(* subword tokens self.__tokenizer.tokenize(line) splits it into.           *)
(***************************************************************************)

\* len(words) > 512 in encode_line.
DiagnosticLimit == 512

\* BertTranslationEncoder.max_positions
max_positions == 512

\* Bounds of the lines: the length of the token pattern a line repeats, the
\* length of the short lines, and how far around the limit the long ones go.
MaxPattern == 2
MaxShort == 3
Window == 2

LineTokens == {"hello", "world", "##st"}

Patterns == UNION {[1..k -> LineTokens] : k \in 1..MaxPattern}

LineLengths ==
    (0..MaxShort) \cup ((DiagnosticLimit - Window)..(DiagnosticLimit + Window))

\* The line of n tokens that repeats pattern.
Repeat(pattern, n) == [i \in 1..n |-> pattern[((i - 1) % Len(pattern)) + 1]]

\* list(reversed(words))
reversed(words) == [i \in 1..Len(words) |-> words[Len(words) + 1 - i]]

\* torch.IntTensor(ids): a 1-D tensor of 32-bit signed integers.  Every id is
\* an index into the vocabulary file, far below 2^31, so each is stored as it is.
IntTensor(idseq) == [dim |-> 1, data |-> idseq]

\* encode_line that wraps the line before it reverses it.
encode_line_wrap_first(dict, words, reverse) ==
    LET wrapped == <<"[CLS]">> \o words \o <<"[SEP]">>
        ordered == IF reverse THEN reversed(wrapped) ELSE wrapped
    IN  [ids |-> IntTensor(convert_tokens_to_ids(dict.tokenizer, ordered)),
         printed |-> Len(words) > DiagnosticLimit]

\* BertBasedDictionary.encode_line(line, reverse_order): the line is printed when
\* it has more than 512 tokens; the tokens, reversed if asked, between '[CLS]'
\* and '[SEP]', as ids.
encode_line(dict, words, reverse) ==
    LET ordered == IF reverse THEN reversed(words) ELSE words
        wrapped == Append(<<"[CLS]">> \o ordered, "[SEP]")
    IN  [ids |-> IntTensor(convert_tokens_to_ids(dict.tokenizer, wrapped)),
         printed |-> Len(words) > DiagnosticLimit]

\* sep.join(strs[lo..hi])
RECURSIVE JoinRange(_, _, _, _)
JoinRange(strs, lo, hi, sep) ==
    IF lo > hi THEN ""
    ELSE IF lo = hi THEN strs[lo]
    ELSE LET mid == (lo + hi) \div 2
         IN  JoinRange(strs, lo, mid, sep) \o sep \o JoinRange(strs, mid + 1, hi, sep)

\* sep.join(strs)
join(sep, strs) == JoinRange(strs, 1, Len(strs), sep)

\* BertBasedDictionary.string on a 1-D tensor: the tokens of the ids, joined by
\* spaces.
string1(dict, data) == join(" ", convert_ids_to_tokens(dict.tokenizer, data))

\* BertBasedDictionary.string: a 2-D tensor row by row, joined by newlines.
string(dict, tensor) ==
    IF tensor.dim = 2
    THEN join("\n", [r \in 1..Len(tensor.data) |-> string1(dict, tensor.data[r])])
    ELSE string1(dict, tensor.data)

NoTensor == [dim |-> 1, data |-> <<>>]

InitTok ==
    /\ name \in BertNames
    /\ bert_dict = NotRun
    /\ line = <<>>
    /\ reverse_order = FALSE
    /\ ids = NoTensor
    /\ printed = FALSE
    /\ text = ""
    /\ tpc = "start"

\* BertBasedDictionary(args.bert_name)
Construct ==
    /\ tpc = "start"
    /\ bert_dict' = BertBasedDictionary(name, BertVocab)
    /\ tpc' = "created"
    /\ UNCHANGED <<name, line, reverse_order, ids, printed, text>>
    /\ UNCHANGED notTok

\* encode_line(line, reverse_order=rev)
EncodeLine(words, rev) ==
    /\ tpc = "created"
    /\ line' = words
    /\ reverse_order' = rev
    /\ LET r == encode_line(bert_dict, words, rev)
       IN  ids' = r.ids /\ printed' = r.printed
    /\ tpc' = "encoded"
    /\ UNCHANGED <<name, bert_dict, text>>
    /\ UNCHANGED notTok

\* string(tensor) on what encode_line returned
String ==
    /\ tpc = "encoded"
    /\ text' = string(bert_dict, ids)
    /\ tpc' = "decoded"
    /\ UNCHANGED <<name, bert_dict, line, reverse_order, ids, printed>>
    /\ UNCHANGED notTok

NextTok ==
    \/ Construct
    \/ \E pattern \in Patterns, n \in LineLengths, rev \in BOOLEAN :
           EncodeLine(Repeat(pattern, n), rev)
    \/ String

(***************************************************************************)
(* The specifications: one per component, the others at rest.               *)
(***************************************************************************)

RestDict ==
    /\ d = NotRun /\ dpc = "rest" /\ ret = NoCall /\ adds = 0 /\ fin = NoFinalize

RestTask ==
    /\ env = NotRun /\ setup = NotRun /\ loaded = NotRun

RestEnc ==
    /\ src_tokens = <<>> /\ enc_pad = 0 /\ encoder_out = NotRun

RestArch ==
    /\ args = NotRun /\ given = NotRun /\ arch = NoPreset

RestTok ==
    /\ name = <<>> /\ bert_dict = NotRun /\ line = <<>> /\ reverse_order = FALSE
    /\ ids = NoTensor /\ printed = FALSE /\ text = "" /\ tpc = "rest"

InitDictSpec == InitDict /\ (RestTask /\ RestEnc /\ RestArch /\ RestTok)
InitTaskSpec == InitTask /\ (RestDict /\ RestEnc /\ RestArch /\ RestTok)
InitEncSpec == InitEnc /\ (RestDict /\ RestTask /\ RestArch /\ RestTok)
InitArchSpec == InitArch /\ (RestDict /\ RestTask /\ RestEnc /\ RestTok)
InitTokSpec == InitTok /\ (RestDict /\ RestTask /\ RestEnc /\ RestArch)

SpecDict == InitDictSpec /\ [][NextDict]_vars
SpecTask == InitTaskSpec /\ [][NextTask]_vars
SpecEnc == InitEncSpec /\ [][NextEnc]_vars
SpecArch == InitArchSpec /\ [][NextArch]_vars
SpecTok == InitTokSpec /\ [][NextTok]_vars

(***************************************************************************)
(* Claims about the Bert-compatible dictionary.                            *)
(***************************************************************************)

\* C1: right after construction with the default words the pad symbol is at
\* index 0, '[unused1]'..'[unused99]' at 1..99, unk at 100, '<bos>' at 101,
\* eos at 102 and nspecial is 103; the first symbol learned afterwards gets
\* index 103.
C1_ReservedLayoutAtConstruction ==
    /\ dpc = "constructed" =>
        /\ Len(d.symbols) = 103 /\ d.nspecial = 103
        /\ d.symbols[1] = "<pad>" /\ d.pad_index = 0
        /\ \A i \in 1..99 : d.symbols[i + 1] = "[unused" \o ToString(i) \o "]"
        /\ d.symbols[101] = "<unk>" /\ d.unk_index = 100
        /\ d.symbols[102] = "<bos>"
        /\ d.symbols[103] = "</s>" /\ d.eos_index = 102
        /\ \A i \in 1..103 : d.indices[d.symbols[i]] = i - 1
    /\ (dpc = "adding" /\ Len(d.symbols) > 103) =>
        /\ d.indices[d.symbols[104]] = 103
        /\ (ret.word = d.symbols[104] => ret.idx = 103)

\* C1's case: the first learned word has been added to a fresh dictionary.
C1_Witness ==
    /\ dpc = "adding" /\ adds = 1
    /\ ret.word = "a" /\ ret.idx = 103
    /\ Len(d.symbols) = 104

\* C10: a dictionary that build_dictionary returns keeps the reserved layout:
\* its first 103 symbols are those of construction at the same indices (pad 0,
\* unk 100, eos 102, nspecial 103), no learned symbol has an index below 103,
\* and its size is a multiple of padding_factor.
C10_BuiltDictionaryKeepsLayout ==
    dpc = "finalized" =>
        /\ Len(d.symbols) >= 103 /\ d.nspecial = 103
        /\ d.pad_index = 0 /\ d.unk_index = 100 /\ d.eos_index = 102
        /\ d.symbols[1] = "<pad>" /\ d.symbols[101] = "<unk>"
        /\ d.symbols[102] = "<bos>" /\ d.symbols[103] = "</s>"
        /\ \A i \in 1..99 : d.symbols[i + 1] = "[unused" \o ToString(i) \o "]"
        /\ \A i \in 1..Len(d.symbols) : d.indices[d.symbols[i]] = i - 1
        /\ DOMAIN d.indices = {d.symbols[i] : i \in 1..Len(d.symbols)}
        /\ \E k \in (0 - Len(d.symbols))..Len(d.symbols) :
               Len(d.symbols) = k * fin.padding_factor

\* C10's case: a corpus that held a reserved word and a learned word was
\* finalized and padded to a multiple of 3.
C10_Witness ==
    /\ dpc = "finalized" /\ fin.padding_factor = 3
    /\ Len(d.symbols) = 105
    /\ d.symbols[104] = "a"
    /\ d.symbols[105] = "madeupword0000"
    /\ d.count[103] > 1

(***************************************************************************)
(* Claims about the translation task.                                      *)
(***************************************************************************)

\* Whether setup_task has a language pair: both given, or inferred.
HasLanguagePair ==
    \/ env.source_lang # "None" /\ env.target_lang # "None"
    \/ env.inferred[1] # "None" /\ env.inferred[2] # "None"

\* C2: setup_task raises and returns no task whenever the source and the
\* target dictionary disagree on the pad, the unk or the eos index; with the
\* target loaded by load_dictionary and a source whose [PAD]/[UNK]/[SEP] ids
\* are 0/100/102 it returns a task whose dictionaries agree on all three.
C2_SetupRequiresMatchingIndices ==
    setup # NotRun =>
        /\ (\/ env.vocab["[PAD]"] # 0
            \/ env.vocab["[UNK]"] # 100
            \/ env.vocab["[SEP]"] # 102) =>
               /\ setup.result # "task"
               /\ HasLanguagePair => setup.result = "AssertionError"
        /\ (/\ HasLanguagePair
            /\ env.vocab["[PAD]"] = 0
            /\ env.vocab["[UNK]"] = 100
            /\ env.vocab["[SEP]"] = 102) =>
               /\ setup.result = "task"
               /\ setup.src_dict.pad = 0 /\ setup.tgt_dict.pad_index = 0
               /\ setup.src_dict.unk = 100 /\ setup.tgt_dict.unk_index = 100
               /\ setup.src_dict.eos = 102 /\ setup.tgt_dict.eos_index = 102
        /\ setup.result = "AssertionError" =>
               \/ setup.src_dict.pad # setup.tgt_dict.pad_index
               \/ setup.src_dict.unk # setup.tgt_dict.unk_index
               \/ setup.src_dict.eos # setup.tgt_dict.eos_index

\* C2's case: the dictionaries agree on pad and eos and differ on unk only,
\* and setup_task raised at its last assertion.
C2_Witness ==
    /\ setup # NotRun
    /\ setup.result = "AssertionError"
    /\ setup.failed = "unk"
    /\ Len(setup.tgt_dict.symbols) > 103

\* C3: whenever setup_task's check passes, the check of load_pretrained_model
\* on the same name and file passes too, on a target dictionary with the same
\* pad, unk and eos indices; and weights are loaded only after the check passed.
C3_LoadRebuildsSetupCheck ==
    /\ (setup # NotRun /\ loaded # NotRun /\ setup.result = "task") =>
           /\ loaded.result # "AssertionError"
           /\ loaded.tgt_dict.pad_index = setup.tgt_dict.pad_index
           /\ loaded.tgt_dict.unk_index = setup.tgt_dict.unk_index
           /\ loaded.tgt_dict.eos_index = setup.tgt_dict.eos_index
    /\ (loaded # NotRun /\ loaded.weights_loaded) =>
           /\ loaded.src_dict.pad = loaded.tgt_dict.pad_index
           /\ loaded.src_dict.unk = loaded.tgt_dict.unk_index
           /\ loaded.src_dict.eos = loaded.tgt_dict.eos_index

(***************************************************************************)
(* Claims about the encoder.                                               *)
(***************************************************************************)

\* C4: for a batch with no position equal to the pad index the mask forward
\* returns is None; for a batch with such a position it is the mask that is
\* true exactly at those positions, and the attention mask handed to the
\* pretrained model is its element-wise negation.
C4_AbsentMaskWithoutPadding ==
    encoder_out # NotRun =>
        LET padded == \E b \in DOMAIN src_tokens : \E i \in DOMAIN src_tokens[b] :
                          src_tokens[b][i] = enc_pad
            mask == encoder_out.encoder_padding_mask
        IN  /\ ~padded => mask = NoneValue
            /\ padded =>
                /\ ~mask.is_none
                /\ DOMAIN mask.value = DOMAIN src_tokens
                /\ \A b \in DOMAIN src_tokens :
                       /\ DOMAIN mask.value[b] = DOMAIN src_tokens[b]
                       /\ \A i \in DOMAIN src_tokens[b] :
                              /\ mask.value[b][i] \in {0, 1}
                              /\ mask.value[b][i] = 1 <=> src_tokens[b][i] = enc_pad
                              /\ encoder_out.attention_mask[b][i] \in {0, 1}
                              /\ encoder_out.attention_mask[b][i] = 1
                                     <=> mask.value[b][i] = 0

\* C4's case: forward ran on a batch of two rows of which one ends in padding.
C4_Witness ==
    /\ encoder_out # NotRun
    /\ Len(src_tokens) = 2 /\ Len(src_tokens[1]) = 2
    /\ src_tokens[1][1] # enc_pad /\ src_tokens[1][2] # enc_pad
    /\ src_tokens[2][1] # enc_pad /\ src_tokens[2][2] = enc_pad
    /\ ~encoder_out.encoder_padding_mask.is_none
    /\ encoder_out.attention_mask = <<<<1, 1>>, <<1, 0>>>>

(***************************************************************************)
(* Claims about the architecture presets.                                  *)
(***************************************************************************)

\* No hyperparameter was set when the preset was applied.
NoHyperparameterGiven == \A f \in Fields : given[f] = Unset

\* What bert_nmt_big gives where nothing was set; "0.0" is the float 0.
BigDefaults ==
    /\ args.decoder_ffn_embed_dim = "4096"
    /\ args.decoder_attention_heads = "16"
    /\ args.dropout = "0.3"
    /\ args.bert_layer = "-2"
    /\ args.decoder_embed_path = "None"
    /\ args.decoder_layers = "6"
    /\ args.decoder_learned_pos = "False"
    /\ args.adaptive_softmax_cutoff = "None"
    /\ args.adaptive_softmax_dropout = "0"
    /\ args.share_decoder_input_output_embed = "False"
    /\ args.share_all_embeddings = "False"
    /\ args.no_token_positional_embeddings = "False"
    /\ args.adaptive_input = "False"

BigOnlyDefaults ==
    /\ args.attention_dropout = "0.0"
    /\ args.relu_dropout = "0.0"
    /\ args.decoder_normalize_before = "False"

T2tOnlyDefaults ==
    /\ args.attention_dropout = "0.1"
    /\ args.relu_dropout = "0.1"
    /\ args.decoder_normalize_before = "True"

\* C5 as stated: bert_nmt_big over an empty config yields decoder_ffn_embed_dim
\* 4096, decoder_attention_heads 16, dropout 0.3 and the base defaults it does
\* not override; bert_nmt_big_t2t the same but decoder_normalize_before True,
\* attention_dropout 0.1 and relu_dropout 0.1.
C5_BigOverEmptyConfig ==
    /\ (NoHyperparameterGiven /\ arch.preset = "bert_nmt_big") =>
           BigDefaults /\ BigOnlyDefaults
    /\ (NoHyperparameterGiven /\ arch.preset = "bert_nmt_big_t2t") =>
           BigDefaults /\ T2tOnlyDefaults

\* C5 amended: the same values, for a config in which bert_name (one of the
\* supported names) is the only attribute set.
C5_BigOverConfigWithBertName ==
    /\ (NoHyperparameterGiven /\ ~given.bert_name.is_none
        /\ arch.preset = "bert_nmt_big") =>
           arch.raised = "no" /\ BigDefaults /\ BigOnlyDefaults
    /\ (NoHyperparameterGiven /\ ~given.bert_name.is_none
        /\ arch.preset = "bert_nmt_big_t2t") =>
           arch.raised = "no" /\ BigDefaults /\ T2tOnlyDefaults

\* C5's case: bert_nmt_big ran over a config that held bert_name only.
C5_Witness ==
    /\ arch.preset = "bert_nmt_big" /\ arch.raised = "no"
    /\ NoHyperparameterGiven
    /\ given.bert_name = Str(BertLargeUncased)
    /\ args.dropout = "0.3" /\ args.decoder_layers = "6"

\* C8 as stated: every hyperparameter that is set before a preset is applied,
\* decoder_embed_dim included, has the same value afterwards.
C8_PresetsKeepEveryGivenField ==
    arch.preset # "none" =>
        \A f \in Fields : given[f] # Unset => args[f] = given[f]

\* C8 amended: every hyperparameter other than decoder_embed_dim that is set
\* before a preset is applied has the same value afterwards; decoder_embed_dim
\* is assigned whatever it held: 768 for a name with 'base' in it, else 1024.
C8_PresetsKeepGivenFieldsButEmbedDim ==
    arch.preset # "none" =>
        /\ \A f \in Fields \ {"decoder_embed_dim"} :
               given[f] # Unset => args[f] = given[f]
        /\ args.bert_name = given.bert_name
        /\ arch.raised = "no" =>
               /\ given.bert_name.chars \in
                      {BertBaseCased, BertBaseUncased, BertBaseMultilingualUncased,
                       BertBaseMultilingualCased, BertBaseChinese}
                      => args.decoder_embed_dim = "768"
               /\ given.bert_name.chars \in {BertLargeCased, BertLargeUncased}
                      => args.decoder_embed_dim = "1024"
        /\ arch.raised # "no" => args.decoder_embed_dim = given.decoder_embed_dim

\* C8's case: a preset ran over a config in which the caller had set dropout
\* and decoder_embed_dim.
C8_Witness ==
    /\ arch.preset = "bert_nmt_big" /\ arch.raised = "no"
    /\ given.dropout = "user" /\ given.decoder_embed_dim = "user"
    /\ args.dropout = "user" /\ args.decoder_embed_dim = "768"

(***************************************************************************)
(* Claims about the Bert-based dictionary.                                 *)
(***************************************************************************)

\* C6: for each of the seven names the tokenizer is created lower-casing if and
\* only if the name contains 'uncased' or is 'bert-base-chinese'.
C6_LowerCaseIffUncasedOrChinese ==
    tpc \in {"created", "encoded", "decoded"} =>
        /\ bert_dict.tokenizer.do_lower_case <=>
               name \in {BertBaseUncased, BertLargeUncased,
                         BertBaseMultilingualUncased, BertBaseChinese}
        /\ bert_dict.tokenizer.do_lower_case <=>
               \/ name = BertBaseChinese
               \/ \E i \in 1..(Len(name) - 6) : SubSeq(name, i, i + 6) = Uncased

\* C6's case: the tokenizer of 'bert-base-multilingual-cased' keeps case.
C6_Witness ==
    /\ tpc = "created"
    /\ name = BertBaseMultilingualCased
    /\ ~bert_dict.tokenizer.do_lower_case

\* The tokens string(encode_line(line)) is to show: '[CLS]', the line's tokens
\* in their order (reversed with reverse_order), '[SEP]'.
Expected ==
    [i \in 1..(Len(line) + 2) |->
        IF i = 1 THEN "[CLS]"
        ELSE IF i = Len(line) + 2 THEN "[SEP]"
        ELSE IF reverse_order THEN line[Len(line) + 2 - i]
        ELSE line[i - 1]]

\* C7: for a line of fewer than 512 tokens, string(encode_line(line)) is
\* '[CLS]', the tokens of the line in their order (reversed with
\* reverse_order=True), '[SEP]', joined by spaces.
C7_EncodeThenStringRoundTrip ==
    (tpc = "decoded" /\ Len(line) < max_positions) =>
        text = join(" ", Expected)

\* C7's case: a line of 511 tokens was encoded in reverse order and decoded.
C7_Witness ==
    /\ tpc = "decoded" /\ reverse_order
    /\ Len(line) = max_positions - 1
    /\ line[1] = "hello" /\ line[2] = "world"

\* C9: every sequence encode_line returns that is longer than 512 ids, the
\* length max_positions declares, has been reported by the diagnostic, which
\* is emitted for every line of more than 512 tokens; and a line of n tokens
\* always gives n + 2 ids.
C9_OverlongSequencesReported ==
    tpc \in {"encoded", "decoded"} =>
        /\ Len(line) > DiagnosticLimit => printed
        /\ Len(ids.data) > max_positions => printed
        /\ Len(ids.data) = Len(line) + 2

====
